---- MODULE Spec2Model ----
(***************************************************************************)
(* Model of urh.dev.VirtualDevice: the facade that dispatches every        *)
(* property and lifecycle verb on (backend, mode) to the adapter it owns.  *)
(*                                                                         *)
(* Python values are records tagged with their type, so that None, ints,   *)
(* strings, lists and arrays can be compared with each other.  Strings     *)
(* are sequences of one-character strings, so that str.lower(),            *)
(* str.replace() and str.join() are computed and not assumed.              *)
(***************************************************************************)
EXTENDS Integers, Sequences, FiniteSets, TLC

VARIABLES
    args,           \* the arguments of the pending __init__ call (locals, gone afterwards)
    pc,             \* "new": not constructed, "ready": __init__ returned, "raised": __init__ raised
    name,           \* self.name
    mode,           \* self.mode
    backend_handler,\* self.backend_handler (its device_backends registry)
    backend,        \* self.backend
    dev,            \* self.__dev, the owned adapter (NoDev is Python's None)
    connections,    \* the signal/slot connections made by __init__, in order
    lastOp,         \* the last operation on the facade or event of the adapter, with its outcome
    before,         \* the adapter as it was when the last operation began
    trace           \* what the last operation did: adapter calls and facade signals, in order

vars == <<args, pc, name, mode, backend_handler, backend, dev, connections, lastOp, before, trace>>

----------------------------------------------------------------------------
(* Bounds *)

\* longest error queue the native driver accumulates
MaxErrors == 2
\* largest repeat count a caller assigns
MaxRepeats == 2

----------------------------------------------------------------------------
(* Python values *)

PyNone == [t |-> "NoneType"]
PyInt(n) == [t |-> "int", v |-> n]
PyBool(b) == [t |-> "bool", v |-> b]
PyStr(s) == [t |-> "str", v |-> s]
PyList(s) == [t |-> "list", items |-> s]
PyArray(n) == [t |-> "ndarray", len |-> n]
PyTuple(a, b) == [t |-> "tuple", fst |-> a, snd |-> b]
\* an attribute that the object does not (or no longer) have
Absent == [t |-> "<absent>"]
\* self.__dev = None
NoDev == [class |-> "NoneType"]

\* "\n\n".join(items): items is a sequence of strings
RECURSIVE Join(_, _)
Join(sep, items) ==
    IF Len(items) = 0 THEN <<>>
    ELSE IF Len(items) = 1 THEN items[1]
    ELSE items[1] \o sep \o Join(sep, Tail(items))

BlankLine == <<"\n", "\n">>

UpperCase == <<"A","B","C","D","E","F","G","H","I","J","K","L","M",
               "N","O","P","Q","R","S","T","U","V","W","X","Y","Z">>
LowerCase == <<"a","b","c","d","e","f","g","h","i","j","k","l","m",
               "n","o","p","q","r","s","t","u","v","w","x","y","z">>

LowerChar(c) ==
    IF \E i \in 1..Len(UpperCase) : UpperCase[i] = c
    THEN LowerCase[CHOOSE i \in 1..Len(UpperCase) : UpperCase[i] = c]
    ELSE c

\* str.lower()
Lower(s) == [i \in 1..Len(s) |-> LowerChar(s[i])]

IsNotHyphen(c) == c # "-"

\* str.replace("-", "")
RemoveHyphens(s) == SelectSeq(s, IsNotHyphen)

----------------------------------------------------------------------------
(* Enumerations and names *)

Modes == {"receive", "send", "spectrum"}
Backends == {"none", "native", "grc", "network"}

NETWORK_SDR_NAME == <<"N","e","t","w","o","r","k"," ","S","D","R">>
NetworkLower == <<"n","e","t","w","o","r","k"," ","s","d","r">>
HackRFName == <<"H","a","c","k","R","F">>
RtlSdrName == <<"R","T","L","-","S","D","R">>
RtlTcpName == <<"r","t","l","-","t","c","p">>
UsrpName == <<"U","S","R","P">>
UnknownName == <<"f","o","o","1","2","3">>

\* BackendHandler.DEVICE_NAMES
DEVICE_NAMES == {HackRFName, UsrpName, RtlSdrName, <<"R","T","L","-","T","C","P">>}

DeviceNames == {NETWORK_SDR_NAME, NetworkLower, HackRFName, RtlSdrName, RtlTcpName,
                UsrpName, UnknownName}

\* backend_handler.device_backends: lower-cased device name -> selected backend
Entry(b) == [selected_backend |-> b]
EmptyRegistry == [k \in {} |-> Entry("none")]
Registry1 ==
    [k \in {Lower(HackRFName), Lower(RtlSdrName), RtlTcpName, Lower(UsrpName), NetworkLower} |->
        IF k = Lower(UsrpName) \/ k = NetworkLower THEN Entry("grc") ELSE Entry("native")]
Registry2 ==
    [k \in {Lower(HackRFName), Lower(RtlSdrName), Lower(UsrpName), UnknownName, NetworkLower} |->
        IF k = Lower(HackRFName) THEN Entry("grc")
        ELSE IF k = Lower(RtlSdrName) THEN Entry("none")
        ELSE IF k = NetworkLower THEN Entry("network")
        ELSE Entry("native")]
Registries == {EmptyRegistry, Registry1, Registry2}

----------------------------------------------------------------------------
(* Attribute access on the adapter.  A step of a method is an execution     *)
(* record: the adapter after the step, the exception raised ("" if none),  *)
(* the value returned and the calls/signals so far.                        *)

Ok(d, r, t) == [dev |-> d, exc |-> "", ret |-> r, trace |-> t]
Raise(d, x, t) == [dev |-> d, exc |-> x, ret |-> PyNone, trace |-> t]

HasAttr(d, f) == f \in DOMAIN d /\ d[f] # Absent

\* self.__dev.f
GetAttr(d, f, t) ==
    IF HasAttr(d, f) THEN Ok(d, d[f], t) ELSE Raise(d, "AttributeError", t)

\* self.__dev.f = v
SetAttr(d, f, v, t) ==
    IF d = NoDev THEN Raise(d, "AttributeError", t)
    ELSE Ok([x \in DOMAIN d \cup {f} |-> IF x = f THEN v ELSE d[x]], PyNone, t)

\* del self.__dev.f
DelAttr(d, f, t) ==
    IF HasAttr(d, f) THEN Ok([d EXCEPT ![f] = Absent], PyNone, t)
    ELSE Raise(d, "AttributeError", t)

\* self.__dev.method(...): a call into the adapter, recorded in order
Call(m) == <<"call", m>>
Emit(s) == <<"emit", s>>

----------------------------------------------------------------------------
(* The adapters.  Their classes live outside VirtualDevice.py; what is      *)
(* modelled here is the attribute surface the facade reads and writes.     *)

\* an RF parameter (bandwidth, frequency, gain, sample rate): opaque to the facade
Param == [t |-> "param"]
DeviceIp == PyStr(<<"i","p">>)
Samples == PyArray(1)

\* ReceiverThread / SenderThread / SpectrumThread (samp_rate, freq, gain, bw)
GrcThread(cls) ==
    [class |-> cls, sample_rate |-> Param, freq |-> Param, gain |-> Param,
     bandwidth |-> Param, data |-> PyNone, usrp_ip |-> PyNone, device |-> PyNone,
     port |-> Param, current_index |-> PyInt(0), current_iteration |-> PyInt(0),
     max_repeats |-> PyInt(1), x |-> Param, y |-> Param]

\* HackRF / RTLSDR / RTLSDRTCP (bw, freq, gain, samp_rate, is_ringbuffer)
NativeDevice(cls, ring) ==
    [class |-> cls, bandwidth |-> Param, frequency |-> Param, gain |-> Param,
     sample_rate |-> Param, bandwidth_is_adjustable |-> PyBool(TRUE),
     is_ringbuffer |-> PyBool(ring), samples_to_send |-> PyNone,
     receive_buffer |-> Samples, device_ip |-> PyNone, portnumber |-> PyNone,
     sending_repeats |-> PyInt(1), current_sent_sample |-> PyInt(0),
     current_recv_index |-> PyInt(0), current_sending_repeat |-> PyInt(0),
     sending_finished |-> PyBool(FALSE), errors |-> PyList(<<>>)]

\* NetworkSDRInterfacePlugin(raw_mode)
NetworkPlugin(raw) ==
    [class |-> "NetworkSDRInterfacePlugin", raw_mode |-> PyBool(raw),
     bandwidth |-> Param, gain |-> Param, sample_rate |-> Param,
     samples_to_send |-> PyNone, receive_buffer |-> Samples, received_bits |-> PyList(<<>>),
     sending_repeats |-> PyInt(1), current_sent_sample |-> PyInt(0),
     current_receive_index |-> PyInt(0), current_sending_repeat |-> PyInt(0),
     server_port |-> Param, client_port |-> Param]

\* Device.init_send_parameters(samples, repeats, skip_device_parameters=True)
init_send_parameters(d, samples, repeats) ==
    [d EXCEPT !.samples_to_send = samples, !.sending_repeats = repeats]

\* NetworkSDRInterfacePlugin.free_data()
plugin_free_data(d) ==
    [d EXCEPT !.receive_buffer = PyNone, !.received_bits = PyList(<<>>)]

\* the signals each adapter class has and the facade connects to
AdapterSignals(cls) ==
    CASE cls = "ReceiverThread" -> {"started", "stopped", "sender_needs_restart", "index_changed"}
      [] cls \in {"SenderThread", "SpectrumThread"} -> {"started", "stopped", "sender_needs_restart"}
      [] cls \in {"HackRF", "RTLSDR", "RTLSDRTCP", "NetworkSDRInterfacePlugin"} -> {"rcv_index_changed"}
      [] OTHER -> {}

\* len(x)
PyLen(x) == IF x.t = "ndarray" THEN x.len ELSE IF x.t = "list" THEN Len(x.items) ELSE -1
HasLen(x) == x.t \in {"ndarray", "list"}

----------------------------------------------------------------------------
(* VirtualDevice.__init__ *)

Connect(sig, slot) == <<sig, slot>>

\* mutant: the registry is consulted before the reserved name
ResolveBackend_RegistryFirst(a) ==
    IF Lower(a.name) \in DOMAIN a.backend_handler.device_backends
    THEN [backend |-> a.backend_handler.device_backends[Lower(a.name)].selected_backend,
          found |-> TRUE]
    ELSE IF a.name = NETWORK_SDR_NAME THEN [backend |-> "network", found |-> TRUE]
    ELSE [backend |-> "none", found |-> FALSE]

\* lines 38-47: which backend the name resolves to
ResolveBackend(a) ==
    IF a.name = NETWORK_SDR_NAME THEN [backend |-> "network", found |-> TRUE]
    ELSE IF Lower(a.name) \in DOMAIN a.backend_handler.device_backends
         THEN [backend |-> a.backend_handler.device_backends[Lower(a.name)].selected_backend,
               found |-> TRUE]
         ELSE [backend |-> "none", found |-> FALSE]

Built(b, d, c) == [exc |-> "", backend |-> b, dev |-> d, connections |-> c]
Failed(b, x) == [exc |-> x, backend |-> b, dev |-> NoDev, connections |-> <<>>]

\* lines 49-65
InitGrc(a) ==
    LET wire(d, c) ==
            Built("grc", [d EXCEPT !.usrp_ip = a.device_ip, !.device = PyStr(a.name)],
                  c \o <<Connect("started", "emit_started_signal"),
                         Connect("stopped", "emit_stopped_signal"),
                         Connect("sender_needs_restart", "emit_sender_needs_restart")>>)
    IN  CASE a.mode = "receive" ->
                wire(GrcThread("ReceiverThread"), <<Connect("index_changed", "emit_index_changed")>>)
          [] a.mode = "send" ->
                IF HasLen(a.samples_to_send)
                THEN wire([GrcThread("SenderThread") EXCEPT !.data = a.samples_to_send], <<>>)
                ELSE Failed("grc", "TypeError")
          [] a.mode = "spectrum" ->
                wire(GrcThread("SpectrumThread"), <<>>)
          [] OTHER -> Failed("grc", "ValueError")

\* lines 66-88
InitNative(a) ==
    LET n == Lower(a.name)
        ring == a.mode = "spectrum" \/ a.is_ringbuffer
        finish(d) ==
            LET d1 == [d EXCEPT !.portnumber = a.portnumber, !.device_ip = a.device_ip]
            IN  Built("native",
                      IF a.mode = "send"
                      THEN init_send_parameters(d1, a.samples_to_send, a.sending_repeats)
                      ELSE d1,
                      <<Connect("rcv_index_changed", "emit_index_changed")>>)
    IN  IF n \in {Lower(k) : k \in DEVICE_NAMES}
        THEN IF n = Lower(HackRFName) THEN finish(NativeDevice("HackRF", ring))
             ELSE IF RemoveHyphens(n) = <<"r","t","l","s","d","r">>
                  THEN finish(NativeDevice("RTLSDR", ring))
             ELSE IF RemoveHyphens(n) = <<"r","t","l","t","c","p">>
                  THEN finish(NativeDevice("RTLSDRTCP", ring))
             ELSE Failed("native", "NotImplementedError")
        ELSE Failed("native", "ValueError")

\* lines 89-92
InitNetwork(a) ==
    Built("network", [NetworkPlugin(a.raw_mode) EXCEPT !.samples_to_send = a.samples_to_send],
          <<Connect("rcv_index_changed", "emit_index_changed")>>)

\* lines 31-96
VirtualDevice_init(a) ==
    LET r == ResolveBackend(a)
    IN  IF ~r.found THEN Built("none", NoDev, <<>>)
        ELSE CASE r.backend = "grc" -> InitGrc(a)
               [] r.backend = "native" -> InitNative(a)
               [] r.backend = "network" -> InitNetwork(a)
               [] r.backend = "none" -> Built("none", NoDev, <<>>)
               [] OTHER -> Failed(r.backend, "ValueError")

----------------------------------------------------------------------------
(* The property surface.  get_p is the getter of property p, set_p(value)   *)
(* its setter; each is the execution record of the call in the current     *)
(* state.                                                                  *)

Unsupported == Raise(dev, "ValueError", <<>>)
\* a function body that ends without a return statement
FallThrough == Ok(dev, PyNone, <<>>)

\* lines 98-104
get_bandwidth == GetAttr(dev, "bandwidth", <<>>)
set_bandwidth(value) == SetAttr(dev, "bandwidth", value, <<>>)

\* lines 106-115
get_bandwidth_is_adjustable ==
    CASE backend = "grc" -> Ok(dev, PyBool(TRUE), <<>>)
      [] backend = "native" -> GetAttr(dev, "bandwidth_is_adjustable", <<>>)
      [] backend = "network" -> Ok(dev, PyBool(TRUE), <<>>)
      [] OTHER -> Unsupported

\* lines 117-124
get_frequency ==
    CASE backend = "grc" -> GetAttr(dev, "freq", <<>>)
      [] backend = "native" -> GetAttr(dev, "frequency", <<>>)
      [] OTHER -> Unsupported

\* lines 126-135
set_frequency(value) ==
    CASE backend = "grc" -> SetAttr(dev, "freq", value, <<>>)
      [] backend = "native" -> SetAttr(dev, "frequency", value, <<>>)
      [] backend = "network" -> FallThrough
      [] OTHER -> Unsupported

\* lines 137-143
get_gain == GetAttr(dev, "gain", <<>>)
set_gain(value) == SetAttr(dev, "gain", value, <<>>)

\* lines 145-151
get_sample_rate == GetAttr(dev, "sample_rate", <<>>)
set_sample_rate(value) == SetAttr(dev, "sample_rate", value, <<>>)

\* lines 153-160
get_samples_to_send ==
    CASE backend = "grc" -> GetAttr(dev, "data", <<>>)
      [] backend \in {"native", "network"} -> GetAttr(dev, "samples_to_send", <<>>)
      [] OTHER -> Unsupported

\* lines 252-260
get_num_sending_repeats ==
    IF mode = "send"
    THEN CASE backend = "grc" -> GetAttr(dev, "max_repeats", <<>>)
           [] backend = "native" -> GetAttr(dev, "sending_repeats", <<>>)
           [] OTHER -> Unsupported
    ELSE FallThrough

\* lines 162-171
set_samples_to_send(value) ==
    CASE backend = "grc" -> SetAttr(dev, "data", value, <<>>)
      [] backend = "native" ->
            LET r == get_num_sending_repeats
            IN  IF r.exc # "" THEN r
                ELSE Ok(init_send_parameters(dev, value, r.ret), PyNone,
                        <<Call("init_send_parameters")>>)
      [] backend = "network" -> SetAttr(dev, "samples_to_send", value, <<>>)
      [] OTHER -> Unsupported

\* lines 173-180
get_ip ==
    CASE backend = "grc" -> GetAttr(dev, "usrp_ip", <<>>)
      [] backend = "native" -> GetAttr(dev, "device_ip", <<>>)
      [] OTHER -> Unsupported

\* lines 182-191
set_ip(value) ==
    CASE backend = "grc" -> SetAttr(dev, "usrp_ip", value, <<>>)
      [] backend = "native" -> SetAttr(dev, "device_ip", value, <<>>)
      [] backend \in {"none", "network"} -> FallThrough
      [] OTHER -> Unsupported

\* lines 193-198
get_port ==
    IF backend = "grc" THEN GetAttr(dev, "port", <<>>) ELSE Unsupported

\* lines 200-205
set_port(value) ==
    IF backend = "grc" THEN SetAttr(dev, "port", value, <<>>) ELSE Unsupported

\* lines 207-225
get_data ==
    CASE backend = "grc" -> GetAttr(dev, "data", <<>>)
      [] backend = "native" ->
            IF mode = "send" THEN GetAttr(dev, "samples_to_send", <<>>)
            ELSE GetAttr(dev, "receive_buffer", <<>>)
      [] backend = "network" ->
            IF mode = "send" THEN Raise(dev, "NotImplementedError", <<>>)
            ELSE LET raw == GetAttr(dev, "raw_mode", <<>>)
                 IN  IF raw.exc # "" THEN raw
                     ELSE IF raw.ret = PyBool(TRUE) THEN GetAttr(dev, "receive_buffer", <<>>)
                     ELSE GetAttr(dev, "received_bits", <<>>)
      [] OTHER -> Unsupported

\* lines 227-237
set_data(value) ==
    CASE backend = "grc" -> SetAttr(dev, "data", value, <<>>)
      [] backend = "native" ->
            IF mode = "send" THEN SetAttr(dev, "samples_to_send", value, <<>>)
            ELSE SetAttr(dev, "receive_buffer", value, <<>>)
      [] OTHER -> Unsupported

\* mutant: the repeat count is stored without resetting the iteration counter
set_num_sending_repeats_NoReset(value) ==
    IF mode = "send"
    THEN CASE backend = "grc" -> SetAttr(dev, "max_repeats", value, <<>>)
           [] backend \in {"native", "network"} -> SetAttr(dev, "sending_repeats", value, <<>>)
           [] OTHER -> Unsupported
    ELSE FallThrough

\* lines 262-272
set_num_sending_repeats(value) ==
    IF mode = "send"
    THEN CASE backend = "grc" ->
                LET cur == GetAttr(dev, "max_repeats", <<>>)
                IN  IF cur.exc # "" THEN cur
                    ELSE IF value # cur.ret
                         THEN SetAttr(SetAttr(dev, "max_repeats", value, <<>>).dev,
                                      "current_iteration", PyInt(0), <<>>)
                         ELSE Ok(dev, PyNone, <<>>)
           [] backend \in {"native", "network"} -> SetAttr(dev, "sending_repeats", value, <<>>)
           [] OTHER -> Unsupported
    ELSE FallThrough

\* the adapter field current_index maps to, lines 274-306
CurrentIndexField ==
    CASE backend = "grc" -> "current_index"
      [] backend = "native" ->
            IF mode = "send" THEN "current_sent_sample" ELSE "current_recv_index"
      [] backend = "network" ->
            IF mode = "send" THEN "current_sent_sample" ELSE "current_receive_index"
      [] OTHER -> ""

\* lines 274-289
get_current_index ==
    IF backend \in {"grc", "native", "network"} THEN GetAttr(dev, CurrentIndexField, <<>>)
    ELSE Unsupported

\* lines 291-306
set_current_index(value) ==
    IF backend \in {"grc", "native", "network"} THEN SetAttr(dev, CurrentIndexField, value, <<>>)
    ELSE Unsupported

\* lines 308-315
get_current_iteration ==
    CASE backend = "grc" -> GetAttr(dev, "current_iteration", <<>>)
      [] backend \in {"native", "network"} -> GetAttr(dev, "current_sending_repeat", <<>>)
      [] OTHER -> Unsupported

\* lines 317-324
set_current_iteration(value) ==
    CASE backend = "grc" -> SetAttr(dev, "current_iteration", value, <<>>)
      [] backend \in {"native", "network"} -> SetAttr(dev, "current_sending_repeat", value, <<>>)
      [] OTHER -> Unsupported

\* lines 326-335
get_sending_finished ==
    CASE backend = "grc" ->
            LET it == GetAttr(dev, "current_iteration", <<>>)
            IN  IF it.exc # "" THEN it ELSE Ok(dev, PyBool(it.ret = PyNone), <<>>)
      [] backend = "native" -> GetAttr(dev, "sending_finished", <<>>)
      [] backend = "network" ->
            LET sent == GetAttr(dev, "current_sent_sample", <<>>)
                samples == get_samples_to_send
            IN  IF sent.exc # "" THEN sent
                ELSE IF samples.exc # "" THEN samples
                ELSE IF ~HasLen(samples.ret) THEN Raise(dev, "TypeError", <<>>)
                ELSE Ok(dev, PyBool(sent.ret = PyInt(PyLen(samples.ret))), <<>>)
      [] OTHER -> Unsupported

\* lines 337-348
get_spectrum ==
    IF mode = "spectrum"
    THEN CASE backend = "grc" ->
                LET x == GetAttr(dev, "x", <<>>)
                    y == GetAttr(dev, "y", <<>>)
                IN  IF x.exc # "" THEN x ELSE IF y.exc # "" THEN y
                    ELSE Ok(dev, PyTuple(x.ret, y.ret), <<>>)
           [] backend = "native" ->
                LET buf == GetAttr(dev, "receive_buffer", <<>>)
                    rate == get_sample_rate
                IN  IF buf.exc # "" THEN buf
                    ELSE IF buf.ret.t # "ndarray" THEN Raise(dev, "IndexError", <<>>)
                    ELSE IF rate.exc # "" THEN rate
                    ELSE Ok(dev, PyTuple(PyArray(buf.ret.len), PyArray(buf.ret.len)), <<>>)
           [] OTHER -> FallThrough
    ELSE Unsupported

----------------------------------------------------------------------------
(* Notifications, lines 418-428: each slot emits the facade's own signal.  *)

emit_stopped_signal == <<Emit("stopped")>>
emit_started_signal == <<Emit("started")>>
emit_sender_needs_restart == <<Emit("sender_needs_restart")>>
emit_index_changed(old, new) == <<<<"emit", "index_changed", old, new>>>>

Slot(slot, old, new) ==
    CASE slot = "emit_started_signal" -> emit_started_signal
      [] slot = "emit_stopped_signal" -> emit_stopped_signal
      [] slot = "emit_sender_needs_restart" -> emit_sender_needs_restart
      [] slot = "emit_index_changed" -> emit_index_changed(old, new)
      [] OTHER -> <<>>

\* the adapter emits sig: every slot connected to it runs, in connection order
RECURSIVE Deliver(_, _, _, _)
Deliver(conns, sig, old, new) ==
    IF conns = <<>> THEN <<>>
    ELSE (IF Head(conns)[1] = sig THEN Slot(Head(conns)[2], old, new) ELSE <<>>)
         \o Deliver(Tail(conns), sig, old, new)

----------------------------------------------------------------------------
(* Lifecycle verbs and error reporting *)

WithTrace(t, r) == [r EXCEPT !.trace = t \o r.trace]
Call1(m, arg) == <<"call", m, arg>>

\* mutant: the facade also reports the start of a streaming adapter itself
start_EmitsOnGrc ==
    CASE backend = "grc" ->
            Ok(dev, PyNone, <<Call("setTerminationEnabled"), Call("terminate"),
                              Call("sleep"), Call("start")>> \o emit_started_signal)
      [] backend = "native" ->
            Ok(dev, PyNone,
               <<IF mode = "send" THEN Call("start_tx_mode") ELSE Call("start_rx_mode")>>
               \o emit_started_signal)
      [] backend = "network" ->
            Ok(dev, PyNone,
               <<IF mode = "receive" THEN Call("start_tcp_server_for_receiving")
                 ELSE Call("start_raw_sending_thread")>>
               \o emit_started_signal)
      [] OTHER -> Unsupported

\* lines 350-371
start ==
    CASE backend = "grc" ->
            Ok(dev, PyNone, <<Call("setTerminationEnabled"), Call("terminate"),
                              Call("sleep"), Call("start")>>)
      [] backend = "native" ->
            Ok(dev, PyNone,
               <<IF mode = "send" THEN Call("start_tx_mode") ELSE Call("start_rx_mode")>>
               \o emit_started_signal)
      [] backend = "network" ->
            Ok(dev, PyNone,
               <<IF mode = "receive" THEN Call("start_tcp_server_for_receiving")
                 ELSE Call("start_raw_sending_thread")>>
               \o emit_started_signal)
      [] OTHER -> Unsupported

\* mutant: stop has no branch for the none backend
stop_RejectsDead(msg) ==
    CASE backend = "grc" -> Ok(dev, PyNone, <<Call1("stop", msg)>>)
      [] backend = "native" ->
            Ok(dev, PyNone,
               <<IF mode = "send" THEN Call1("stop_tx_mode", msg) ELSE Call1("stop_rx_mode", msg)>>
               \o emit_stopped_signal)
      [] backend = "network" -> Ok(dev, PyNone, <<Call("stop_tcp_server")>> \o emit_stopped_signal)
      [] OTHER -> Unsupported

\* lines 373-388
stop(msg) ==
    CASE backend = "grc" -> Ok(dev, PyNone, <<Call1("stop", msg)>>)
      [] backend = "native" ->
            Ok(dev, PyNone,
               <<IF mode = "send" THEN Call1("stop_tx_mode", msg) ELSE Call1("stop_rx_mode", msg)>>
               \o emit_stopped_signal)
      [] backend = "network" -> Ok(dev, PyNone, <<Call("stop_tcp_server")>> \o emit_stopped_signal)
      [] backend = "none" -> FallThrough
      [] OTHER -> FallThrough

\* mutant: the queue is read but not cleared
read_errors_NoClear ==
    CASE backend = "grc" -> Ok(dev, PyStr(<<>>), <<Call("read_errors")>>)
      [] backend = "native" ->
            LET errs == GetAttr(dev, "errors", <<>>)
            IN  IF errs.exc # "" THEN errs
                ELSE Ok(dev, PyStr(Join(BlankLine, errs.ret.items)), <<>>)
      [] backend = "network" -> Ok(dev, PyStr(<<>>), <<>>)
      [] OTHER -> Unsupported

\* lines 430-440
read_errors ==
    CASE backend = "grc" -> Ok(dev, PyStr(<<>>), <<Call("read_errors")>>)
      [] backend = "native" ->
            LET errs == GetAttr(dev, "errors", <<>>)
            IN  IF errs.exc # "" THEN errs
                ELSE Ok([dev EXCEPT !.errors = PyList(<<>>)],
                        PyStr(Join(BlankLine, errs.ret.items)), <<>>)
      [] backend = "network" -> Ok(dev, PyStr(<<>>), <<>>)
      [] OTHER -> Unsupported

\* mutant: only the path of the facade's mode is stopped
stop_on_error_ModeOnly(msg) ==
    CASE backend = "grc" -> Ok(dev, PyNone, <<Call1("stop", msg)>>)
      [] backend = "native" ->
            LET r == read_errors
            IN  IF r.exc # "" THEN r
                ELSE Ok(r.dev, PyNone,
                        r.trace \o <<IF mode = "send" THEN Call1("stop_tx_mode", "Stop on error")
                                      ELSE Call1("stop_rx_mode", "Stop on error")>>
                                \o emit_stopped_signal)
      [] OTHER -> Unsupported

\* lines 390-399
stop_on_error(msg) ==
    CASE backend = "grc" -> Ok(dev, PyNone, <<Call1("stop", msg)>>)
      [] backend = "native" ->
            LET r == read_errors
            IN  IF r.exc # "" THEN r
                ELSE Ok(r.dev, PyNone,
                        r.trace \o <<Call1("stop_rx_mode", "Stop on error"),
                                     Call1("stop_tx_mode", "Stop on error")>>
                                \o emit_stopped_signal)
      [] OTHER -> Unsupported

\* mutant: cleanup also drops the adapter reference
cleanup_DropsAdapter ==
    CASE backend = "grc" ->
            Ok(NoDev, PyNone,
               (IF mode = "send" THEN <<Call("socket.close"), Call("sleep")>> ELSE <<>>)
               \o <<Call("quit")>>)
      [] backend = "native" -> Ok(NoDev, PyNone, <<>>)
      [] backend = "none" -> FallThrough
      [] OTHER -> Unsupported

\* lines 401-416
cleanup ==
    CASE backend = "grc" ->
            WithTrace((IF mode = "send" THEN <<Call("socket.close"), Call("sleep")>> ELSE <<>>)
                      \o <<Call("quit")>>,
                      set_data(PyNone))
      [] backend = "native" -> set_data(PyNone)
      [] backend = "none" -> FallThrough
      [] OTHER -> Unsupported

\* lines 239-250
free_data ==
    CASE backend = "grc" -> DelAttr(dev, "data", <<>>)
      [] backend = "native" ->
            LET a == DelAttr(dev, "samples_to_send", <<>>)
            IN  IF a.exc # "" THEN a ELSE DelAttr(a.dev, "receive_buffer", <<>>)
      [] backend = "network" -> Ok(plugin_free_data(dev), PyNone, <<Call("free_data")>>)
      [] backend = "none" -> FallThrough
      [] OTHER -> Unsupported

\* lines 442-446
set_server_port(port) ==
    IF backend = "network" THEN SetAttr(dev, "server_port", port, <<>>) ELSE Unsupported

\* lines 448-452
set_client_port(port) ==
    IF backend = "network" THEN SetAttr(dev, "client_port", port, <<>>) ELSE Unsupported

----------------------------------------------------------------------------
(* Inputs *)

ParamValues == {Param}
BufferValues == {PyNone, Samples}
RepeatValues == {PyInt(n) : n \in 0..MaxRepeats}
IndexValues == {PyInt(0)}
IpValues == {DeviceIp}
Reasons == {"user"}
ErrorMessages == {<<"e","1">>, <<"e","2">>}

AllArgs ==
    [name : DeviceNames, mode : Modes,
     backend_handler : {[device_backends |-> r] : r \in Registries},
     samples_to_send : BufferValues, raw_mode : BOOLEAN,
     device_ip : IpValues, portnumber : ParamValues,
     sending_repeats : {PyInt(1)}, is_ringbuffer : {FALSE}]

NoArgs == [consumed |-> TRUE]
NoOp == [op |-> "", prop |-> "", arg |-> PyNone, exc |-> "", ret |-> PyNone, again |-> FALSE]

----------------------------------------------------------------------------
(* Actions *)

Init ==
    /\ args \in AllArgs
    /\ pc = "new"
    /\ name = <<>>
    /\ mode = "unset"
    /\ backend_handler = [device_backends |-> EmptyRegistry]
    /\ backend = "unset"
    /\ dev = NoDev
    /\ connections = <<>>
    /\ lastOp = NoOp
    /\ before = NoDev
    /\ trace = <<>>

\* VirtualDevice(backend_handler, name, mode, ...)
Construct ==
    /\ pc = "new"
    /\ LET r == VirtualDevice_init(args)
       IN  /\ name' = args.name
           /\ mode' = args.mode
           /\ backend_handler' = args.backend_handler
           /\ backend' = r.backend
           /\ dev' = r.dev
           /\ connections' = r.connections
           /\ pc' = IF r.exc = "" THEN "ready" ELSE "raised"
           /\ lastOp' = [NoOp EXCEPT !.op = "__init__", !.exc = r.exc]
    /\ args' = NoArgs
    /\ before' = NoDev
    /\ trace' = <<>>

\* a call of a method or property of the constructed facade
Do(op, prop, arg, r) ==
    /\ pc = "ready"
    /\ dev' = r.dev
    /\ before' = dev
    /\ trace' = r.trace
    /\ lastOp' = [op |-> op, prop |-> prop, arg |-> arg, exc |-> r.exc, ret |-> r.ret,
                  again |-> op = "read_errors" /\ lastOp.op = "read_errors"]
    /\ UNCHANGED <<args, pc, name, mode, backend_handler, backend, connections>>

GetBandwidth == Do("get", "bandwidth", PyNone, get_bandwidth)
SetBandwidth == \E v \in ParamValues : Do("set", "bandwidth", v, set_bandwidth(v))
GetBandwidthIsAdjustable == Do("get", "bandwidth_is_adjustable", PyNone, get_bandwidth_is_adjustable)
GetFrequency == Do("get", "frequency", PyNone, get_frequency)
SetFrequency == \E v \in ParamValues : Do("set", "frequency", v, set_frequency(v))
GetGain == Do("get", "gain", PyNone, get_gain)
SetGain == \E v \in ParamValues : Do("set", "gain", v, set_gain(v))
GetSampleRate == Do("get", "sample_rate", PyNone, get_sample_rate)
SetSampleRate == \E v \in ParamValues : Do("set", "sample_rate", v, set_sample_rate(v))
GetSamplesToSend == Do("get", "samples_to_send", PyNone, get_samples_to_send)
SetSamplesToSend == \E v \in BufferValues : Do("set", "samples_to_send", v, set_samples_to_send(v))
GetIp == Do("get", "ip", PyNone, get_ip)
SetIp == \E v \in IpValues : Do("set", "ip", v, set_ip(v))
GetPort == Do("get", "port", PyNone, get_port)
SetPort == \E v \in ParamValues : Do("set", "port", v, set_port(v))
GetData == Do("get", "data", PyNone, get_data)
SetData == \E v \in BufferValues : Do("set", "data", v, set_data(v))
GetNumSendingRepeats == Do("get", "num_sending_repeats", PyNone, get_num_sending_repeats)
SetNumSendingRepeats ==
    \E v \in RepeatValues : Do("set", "num_sending_repeats", v, set_num_sending_repeats(v))
GetCurrentIndex == Do("get", "current_index", PyNone, get_current_index)
SetCurrentIndex == \E v \in IndexValues : Do("set", "current_index", v, set_current_index(v))
GetCurrentIteration == Do("get", "current_iteration", PyNone, get_current_iteration)
SetCurrentIteration ==
    \E v \in IndexValues : Do("set", "current_iteration", v, set_current_iteration(v))
GetSendingFinished == Do("get", "sending_finished", PyNone, get_sending_finished)
GetSpectrum == Do("get", "spectrum", PyNone, get_spectrum)

Start == Do("start", "", PyNone, start)
Stop == \E msg \in Reasons : Do("stop", "", PyStr(msg), stop(msg))
StopOnError == \E msg \in Reasons : Do("stop_on_error", "", PyStr(msg), stop_on_error(msg))
Cleanup == Do("cleanup", "", PyNone, cleanup)
FreeData == Do("free_data", "", PyNone, free_data)
ReadErrors == Do("read_errors", "", PyNone, read_errors)
SetServerPort == \E v \in ParamValues : Do("set_server_port", "", v, set_server_port(v))
SetClientPort == \E v \in ParamValues : Do("set_client_port", "", v, set_client_port(v))

\* the adapter emits one of its signals (from its own thread or loop)
AdapterSignal ==
    /\ pc = "ready"
    /\ \E sig \in AdapterSignals(dev.class), old \in 0..1, new \in 0..1 :
          /\ IF sig \in {"index_changed", "rcv_index_changed"} THEN TRUE ELSE old = 0 /\ new = 0
          /\ trace' = Deliver(connections, sig, old, new)
          /\ lastOp' = [NoOp EXCEPT !.op = "signal", !.prop = sig,
                                    !.arg = PyTuple(PyInt(old), PyInt(new))]
    /\ before' = dev
    /\ UNCHANGED <<args, pc, name, mode, backend_handler, backend, dev, connections>>

\* the native driver reports an error: it is queued
AdapterError ==
    /\ pc = "ready"
    /\ backend = "native"
    /\ HasAttr(dev, "errors")
    /\ Len(dev.errors.items) < MaxErrors
    /\ \E e \in ErrorMessages :
          dev' = [dev EXCEPT !.errors = PyList(Append(dev.errors.items, e))]
    /\ lastOp' = [NoOp EXCEPT !.op = "error"]
    /\ before' = dev
    /\ trace' = <<>>
    /\ UNCHANGED <<args, pc, name, mode, backend_handler, backend, connections>>

\* the streaming sender finishes one repetition, or the last one
AdapterProgress ==
    /\ pc = "ready"
    /\ backend = "grc"
    /\ mode = "send"
    /\ HasAttr(dev, "current_iteration")
    /\ dev.current_iteration.t = "int"
    /\ \E next \in {PyNone} \cup {PyInt(i + 1) : i \in {dev.current_iteration.v} \ {MaxRepeats}} :
          dev' = [dev EXCEPT !.current_iteration = next]
    /\ lastOp' = [NoOp EXCEPT !.op = "progress"]
    /\ before' = dev
    /\ trace' = <<>>
    /\ UNCHANGED <<args, pc, name, mode, backend_handler, backend, connections>>

Next ==
    \/ Construct
    \/ GetBandwidth \/ SetBandwidth \/ GetBandwidthIsAdjustable
    \/ GetFrequency \/ SetFrequency \/ GetGain \/ SetGain
    \/ GetSampleRate \/ SetSampleRate \/ GetSamplesToSend \/ SetSamplesToSend
    \/ GetIp \/ SetIp \/ GetPort \/ SetPort \/ GetData \/ SetData
    \/ GetNumSendingRepeats \/ SetNumSendingRepeats
    \/ GetCurrentIndex \/ SetCurrentIndex
    \/ GetCurrentIteration \/ SetCurrentIteration
    \/ GetSendingFinished \/ GetSpectrum
    \/ Start \/ Stop \/ StopOnError \/ Cleanup \/ FreeData \/ ReadErrors
    \/ SetServerPort \/ SetClientPort
    \/ AdapterSignal \/ AdapterError \/ AdapterProgress

Spec == Init /\ [][Next]_vars

----------------------------------------------------------------------------
(* Properties *)

Ready == pc = "ready"
Dead == Ready /\ backend = "none"
Live == Ready /\ backend \in {"grc", "native", "network"}

IsEmit(e) == e[1] = "emit"
\* the facade signals emitted by the last operation, in order
Emitted == SelectSeq(trace, IsEmit)

RegistryOf(h) == h.device_backends

\* C1: after construction the backend is NetworkVirtual if the name is the
\* reserved network name, whatever the registry holds; otherwise the selected
\* backend of the registry entry of the lower-cased name; otherwise construction
\* returned normally with backend none and no adapter.
C1_BackendResolution ==
    pc # "new" =>
        IF name = NETWORK_SDR_NAME THEN backend = "network"
        ELSE IF Lower(name) \in DOMAIN RegistryOf(backend_handler)
             THEN backend = RegistryOf(backend_handler)[Lower(name)].selected_backend
             ELSE pc = "ready" /\ backend = "none" /\ dev = NoDev

\* the reserved name wins over a registry entry that selects another backend
C1_Witness ==
    /\ Ready
    /\ name = NETWORK_SDR_NAME
    /\ Lower(name) \in DOMAIN RegistryOf(backend_handler)
    /\ RegistryOf(backend_handler)[Lower(name)].selected_backend = "grc"
    /\ backend = "network"

\* C2 as stated: on a dead facade start, stop and cleanup all return without
\* raising, emit nothing and change nothing.
C2_Original ==
    (Dead /\ lastOp.op \in {"start", "stop", "cleanup"}) =>
        /\ lastOp.exc = ""
        /\ trace = <<>>
        /\ dev = NoDev /\ before = NoDev

\* C2 amended: on a dead facade stop and cleanup return without raising, start
\* is rejected with the unsupported-backend error; none of the three emits a
\* notification or changes state.
C2_DeadLifecycle ==
    (Dead /\ lastOp.op \in {"start", "stop", "cleanup"}) =>
        /\ lastOp.exc = IF lastOp.op = "start" THEN "ValueError" ELSE ""
        /\ trace = <<>>
        /\ dev = NoDev /\ before = NoDev

C2_Witness ==
    Dead /\ lastOp.op = "stop" /\ lastOp.exc = "" /\ name = UnknownName

\* C3: on a dead facade every operation other than start, stop and cleanup is
\* rejected with an error.
C3_DeadFacadeRejects ==
    (Dead /\ lastOp.op \in {"get", "set", "free_data", "read_errors", "stop_on_error",
                            "set_server_port", "set_client_port"}) =>
        lastOp.exc # ""

\* the (property, backend, mode) combinations C4 names as not forwarded
C4_NotForwarded ==
    \/ backend = "network" /\ lastOp.prop \in {"frequency", "ip"}
    \/ lastOp.prop = "num_sending_repeats" /\ mode # "send"
    \/ lastOp.prop = "spectrum" /\ backend = "network" /\ mode = "spectrum"
    \/ lastOp.prop = "data" /\ backend = "network" /\ (lastOp.op = "set" \/ mode = "send")

\* C4: on a live facade a property read or written under a combination that is
\* not forwarded to an adapter field fails with an error.
C4_UnsupportedRejected ==
    (Live /\ lastOp.op \in {"get", "set"} /\ C4_NotForwarded) => lastOp.exc # ""

\* C5: every completed start/stop on native and network emits exactly one
\* started/stopped; on grc start and stop emit nothing themselves and every
\* signal of the adapter is re-emitted exactly once, index-changed (receive
\* mode) with the same arguments.
C5_OncePerEvent ==
    Ready =>
        /\ (lastOp.op = "start" /\ lastOp.exc = "" /\ backend \in {"native", "network"})
                => Emitted = <<Emit("started")>>
        /\ (lastOp.op = "stop" /\ lastOp.exc = "" /\ backend \in {"native", "network"})
                => Emitted = <<Emit("stopped")>>
        /\ (lastOp.op \in {"start", "stop"} /\ backend = "grc") => Emitted = <<>>
        /\ (lastOp.op = "signal" /\ backend = "grc"
                /\ lastOp.prop \in {"started", "stopped", "sender_needs_restart"})
                => Emitted = <<Emit(lastOp.prop)>>
        /\ (lastOp.op = "signal" /\ backend = "grc" /\ mode = "receive"
                /\ lastOp.prop = "index_changed")
                => Emitted = <<<<"emit", "index_changed", lastOp.arg.fst.v, lastOp.arg.snd.v>>>>

C5_Witness ==
    /\ Ready /\ backend = "grc" /\ mode = "receive"
    /\ lastOp.op = "signal" /\ lastOp.prop = "index_changed"
    /\ lastOp.arg = PyTuple(PyInt(0), PyInt(1))
    /\ Emitted = <<<<"emit", "index_changed", 0, 1>>>>

\* C6: after stop_on_error on a native facade the error queue is empty, both
\* the receive stop and the transmit stop were called, and exactly one stopped
\* was emitted, after both.
C6_StopOnError ==
    (Ready /\ backend = "native" /\ lastOp.op = "stop_on_error") =>
        /\ lastOp.exc = ""
        /\ dev.errors = PyList(<<>>)
        /\ Len(Emitted) = 1
        /\ \E i, j, k \in DOMAIN trace :
              /\ trace[i][2] = "stop_rx_mode"
              /\ trace[j][2] = "stop_tx_mode"
              /\ trace[k] = Emit("stopped")
              /\ i < k /\ j < k

C6_Witness ==
    /\ Ready /\ backend = "native" /\ mode = "receive"
    /\ lastOp.op = "stop_on_error"
    /\ Len(before.errors.items) = MaxErrors
    /\ dev.errors.items = <<>>

\* C7: read_errors on a native facade returns the queued errors joined in
\* queue order with a blank line between them and empties the queue; a second
\* read_errors right after returns the empty string.
C7_ReadErrorsDestructive ==
    (Ready /\ backend = "native" /\ lastOp.op = "read_errors") =>
        /\ lastOp.exc = ""
        /\ lastOp.ret = PyStr(Join(BlankLine, before.errors.items))
        /\ (before.errors.items = <<<<"e","1">>, <<"e","2">>>>
                => lastOp.ret.v = <<"e","1","\n","\n","e","2">>)
        /\ dev.errors = PyList(<<>>)
        /\ (lastOp.again => lastOp.ret = PyStr(<<>>))

C7_Witness ==
    /\ Ready /\ backend = "native"
    /\ lastOp.op = "read_errors" /\ lastOp.again
    /\ lastOp.ret = PyStr(<<>>)

\* what assigning num_sending_repeats does to max_repeats and the iteration counter
C8_Effect ==
    IF lastOp.arg # before.max_repeats
    THEN dev.max_repeats = lastOp.arg /\ dev.current_iteration = PyInt(0)
    ELSE dev.max_repeats = before.max_repeats
         /\ dev.current_iteration = before.current_iteration

C9_CleanupReleases ==
    (Live /\ lastOp.op = "cleanup") =>
        /\ lastOp.exc = ""
        /\ get_data.exc = "" /\ get_data.ret = PyNone
        /\ (backend = "grc" /\ mode = "send") =>
              \E i, j \in DOMAIN trace :
                  i < j /\ trace[i] = Call("socket.close") /\ trace[j] = Call("quit")

\* the adapter class that (backend, mode) determines
C10_KindMatches ==
    CASE backend = "grc" ->
            dev.class = (CASE mode = "receive" -> "ReceiverThread"
                           [] mode = "send" -> "SenderThread"
                           [] OTHER -> "SpectrumThread")
      [] backend = "native" -> dev.class \in {"HackRF", "RTLSDR", "RTLSDRTCP"}
      [] backend = "network" -> dev.class = "NetworkSDRInterfacePlugin"
      [] OTHER -> dev = NoDev

\* C10: once constructed, no operation changes the backend, the mode or the
\* adapter reference; the adapter is null exactly for backend none and its
\* kind is the one (backend, mode) determines.
C10_Immutable ==
    /\ [](Ready => ((dev = NoDev) <=> (backend = "none")) /\ C10_KindMatches)
    /\ [][Ready => (backend' = backend /\ mode' = mode /\ dev'.class = dev.class
                    /\ connections' = connections)]_vars

C10_Witness ==
    /\ Ready /\ backend = "native" /\ lastOp.op = "cleanup" /\ lastOp.exc = ""
    /\ dev.class = "RTLSDR" /\ dev.receive_buffer = PyNone

====
